---- MODULE Spec2Model ----
(***************************************************************************)
(* Model of the two Docsify plugins of the documentation site:             *)
(*   framework-switcher.js  (src/docs/assets/framework-switcher.js)        *)
(*   on-this-page.js        (src/unnamed/part_007)                         *)
(*                                                                         *)
(* Strings that the code takes apart (framework names, routes, hashes,     *)
(* heading texts) are sequences of one-character strings or of tokens, so  *)
(* that lower-casing, whitespace removal, prefix stripping and splitting   *)
(* are computed and not assumed.                                           *)
(***************************************************************************)
EXTENDS Integers, Sequences, FiniteSets, TLC

VARIABLES
    \* ---- framework-switcher.js ----
    pc,                \* "loaded": script evaluated, hook.init not yet run; "ready": after hook.init
    currentFramework,  \* let currentFramework (line 96)
    localStorage,      \* browser local storage: key -> value
    defaultFramework,  \* CONFIG.defaultFramework (user configuration, fixed for a behaviour)
    page,              \* index of the page Docsify rendered last (0: none yet)
    dom,               \* children of the content element, in document order
    pendingProcess,    \* requestAnimationFrame callbacks of hook.doneEach not yet run
    selected,          \* history: framework of the last switcher button the user clicked
    \* ---- on-this-page.js ----
    otpPage,           \* index of the page whose content is in the document (0: none yet)
    currentRoute,      \* let currentRoute (line 480)
    hash,              \* window.location.hash
    content,           \* heading elements of .content, in document order
    sidebar,           \* the .on-this-page elements found in the document, in order
    leftSidebar,       \* aside.sidebar of Docsify
    handlers,          \* scroll listeners registered on window, in registration order
    rafQueue,          \* animation-frame callbacks requested and not yet started
    running,           \* callbacks of the frame in progress that have not run yet
    timers,            \* pending setTimeout callbacks of updateLeftSidebarActiveState
    scrollY,           \* window.pageYOffset
    threw,             \* TRUE once a callback of on-this-page.js raised an error
    lastRun,           \* history: the handler whose updateActiveLink ran in the last step
    \* ---- detectFramework and stripMarkerLine applied to one code block ----
    block,             \* the code element
    prevEl,            \* the previous element sibling of its pre
    result,            \* what detectFramework returned last
    grouped            \* whether createGroupFromBatch has moved its pre into a group

fwVars == <<pc, currentFramework, localStorage, defaultFramework, page, dom, pendingProcess, selected>>
otpVars == <<otpPage, currentRoute, hash, content, sidebar, leftSidebar,
             handlers, rafQueue, running, timers, scrollY, threw, lastRun>>
detVars == <<block, prevEl, result, grouped>>
vars == <<pc, currentFramework, localStorage, defaultFramework, page, dom, pendingProcess, selected,
          otpPage, currentRoute, hash, content, sidebar, leftSidebar,
          handlers, rafQueue, running, timers, scrollY, threw, lastRun,
          block, prevEl, result, grouped>>

(***************************************************************************)
(* Generic helpers                                                         *)
(***************************************************************************)
Range(s) == {s[i] : i \in DOMAIN s}

Min(a, b) == IF a < b THEN a ELSE b

RECURSIVE SelectIdx(_, _, _)
\* the indices i of s, in order, for which Test(s[i]) holds
SelectIdx(s, Test(_), i) ==
    IF i > Len(s) THEN <<>>
    ELSE (IF Test(s[i]) THEN <<i>> ELSE <<>>) \o SelectIdx(s, Test, i + 1)

RECURSIVE Flatten(_)
Flatten(ss) == IF ss = <<>> THEN <<>> ELSE Head(ss) \o Flatten(Tail(ss))

(***************************************************************************)
(* Strings                                                                 *)
(***************************************************************************)
\* JavaScript null / undefined, kept apart from the empty string
Null == <<"null">>
Empty == <<>>
Falsy(v) == v = Null \/ v = Empty

hono == <<"h", "o", "n", "o">>
express == <<"e", "x", "p", "r", "e", "s", "s">>
react == <<"r", "e", "a", "c", "t">>
\* names that are not configured, and spellings that normalise to configured names
nestjs == <<"n", "e", "s", "t", "j", "s">>
HonoCaps == <<"H", "o", "n", "o">>
reactSpaced == <<"r", "e", " ", "a", "c", "t">>

toLowerCase(c) ==
    CASE c = "H" -> "h"
      [] c = "E" -> "e"
      [] c = "R" -> "r"
      [] c = "A" -> "a"
      [] c = "B" -> "b"
      [] OTHER -> c

IsSpace(c) == c \in {" ", "\t"}

RECURSIVE normalizeFrameworkName(_)
\* name.toLowerCase().replace(/\s+/g, "")
normalizeFrameworkName(name) ==
    IF name = <<>> THEN <<>>
    ELSE (IF IsSpace(Head(name)) THEN <<>> ELSE <<toLowerCase(Head(name))>>)
         \o normalizeFrameworkName(Tail(name))

(***************************************************************************)
(* framework-switcher.js: configuration                                    *)
(***************************************************************************)
storageKey == "docsify-fw"
otherKey == "theme"
frameworks == <<hono, express, react>>
frameworkSet == Range(frameworks)
maxLinesToCheck == 5
\* CONFIG.markerPattern and CONFIG.labelPattern are both configured; whether a
\* line or a paragraph matches one of them is a field of the line or paragraph
markerPattern == TRUE
labelPattern == TRUE

(***************************************************************************)
(* framework-switcher.js: the DOM of the content element                   *)
(*                                                                         *)
(* A line of a code block: t is "blank", "marker" (matches markerPattern,  *)
(* name is capture group 1), "label" (matches labelPattern) or "plain";    *)
(* cmt says whether the trimmed line starts with //, # or <!--.            *)
(* A node is a child of the content element:                               *)
(*   "pre"   a pre > code block             "p"    a paragraph             *)
(*   "box"   an element (blockquote, li) whose only child is a pre > code  *)
(*   "el"    any other element              "text" a text node             *)
(*   "group" a div.fw-group made by the plugin: buttons and kids           *)
(* ptext of a paragraph: t is "empty", "label" (matches labelPattern) or   *)
(* "text".                                                                 *)
(***************************************************************************)
Line(t, name, cmt) == [t |-> t, name |-> name, cmt |-> cmt]
Marker(name) == Line("marker", name, TRUE)
Label(name) == Line("label", name, FALSE)
Blank == Line("blank", Empty, FALSE)
Comment == Line("plain", Empty, TRUE)
Code == Line("plain", Empty, FALSE)

NoText == [t |-> "none", name |-> Empty]

Node(k, id, lines, cls, ptext) ==
    [k |-> k, id |-> id, lines |-> lines, cls |-> cls, dataset |-> Null,
     stripped |-> FALSE, hidden |-> FALSE, ptext |-> ptext,
     buttons |-> <<>>, kids |-> <<>>]
Pre(id, lines) == Node("pre", id, lines, {}, NoText)
PreClass(id, lines, cls) == Node("pre", id, lines, cls, NoText)
Box(id, lines) == Node("box", id, lines, {}, NoText)
Para(t, name) == Node("p", 0, <<>>, {}, [t |-> t, name |-> name])
Element == Node("el", 0, <<>>, {}, NoText)
TextNode == Node("text", 0, <<>>, {}, NoText)

NoNode == Node("none", 0, <<>>, {}, NoText)

IsCode(n) == n.k \in {"pre", "box"}
IsElement(n) == n.k # "text"

\* sibling.tagName === "P" && CONFIG.labelPattern.test(text)
IsLabelPara(n) == n.k = "p" /\ labelPattern /\ n.ptext.t = "label"

(***************************************************************************)
(* detectFramework (lines 116-200)                                         *)
(***************************************************************************)
RECURSIVE ScanLinesNoLimit(_, _)
ScanLinesNoLimit(lines, i) ==
    IF i > Len(lines) THEN Null
    ELSE LET line == lines[i] IN
         IF line.t = "blank" THEN ScanLinesNoLimit(lines, i + 1)
         ELSE IF line.t \in {"marker", "label"}
                 /\ normalizeFrameworkName(line.name) \in frameworkSet
              THEN normalizeFrameworkName(line.name)
         ELSE ScanLinesNoLimit(lines, i + 1)

RECURSIVE ScanLines(_, _)
\* the loop over the first maxLinesToCheck lines (lines 126-169)
ScanLines(lines, i) ==
    IF i > Min(Len(lines), maxLinesToCheck) THEN Null
    ELSE LET line == lines[i] IN
         IF line.t = "blank" THEN ScanLines(lines, i + 1)
         ELSE IF markerPattern /\ line.t = "marker"
                 /\ normalizeFrameworkName(line.name) \in frameworkSet
              THEN normalizeFrameworkName(line.name)
         ELSE IF labelPattern /\ line.t = "label"
                 /\ normalizeFrameworkName(line.name) \in frameworkSet
              THEN normalizeFrameworkName(line.name)
         ELSE IF ~line.cmt THEN Null
         ELSE ScanLines(lines, i + 1)

PrevLabelIgnored(prev) == Null

\* the label of the paragraph right before the pre (lines 171-183);
\* prev is the previous element sibling of the pre, or NoNode
PrevLabel(prev) ==
    IF prev.k = "p" /\ labelPattern /\ prev.ptext.t = "label"
       /\ normalizeFrameworkName(prev.ptext.name) \in frameworkSet
    THEN normalizeFrameworkName(prev.ptext.name)
    ELSE Null

RECURSIVE ClassScan(_, _)
\* the class-name fallback, in the order of CONFIG.frameworks (lines 185-197)
ClassScan(cls, i) ==
    IF i > Len(frameworks) THEN Null
    ELSE IF frameworks[i] \in cls THEN frameworks[i]
    ELSE ClassScan(cls, i + 1)

detectFrameworkNoListCheck(code, prev) ==
    IF ~Falsy(code.dataset) THEN code.dataset
    ELSE LET first == SelectIdx(code.lines, LAMBDA l : l.t # "blank", 1)
         IN IF first # <<>> /\ first[1] <= maxLinesToCheck
               /\ code.lines[first[1]].t = "marker"
            THEN normalizeFrameworkName(code.lines[first[1]].name)
            ELSE IF ScanLines(code.lines, 1) # Null THEN ScanLines(code.lines, 1)
            ELSE IF PrevLabel(prev) # Null THEN PrevLabel(prev)
            ELSE ClassScan(code.cls, 1)

\* the value detectFramework returns
detectFramework(code, prev) ==
    IF ~Falsy(code.dataset) THEN code.dataset
    ELSE IF ScanLines(code.lines, 1) # Null THEN ScanLines(code.lines, 1)
    ELSE IF PrevLabel(prev) # Null THEN PrevLabel(prev)
    ELSE ClassScan(code.cls, 1)

\* the element after the call: a detected framework is cached in the dataset
Detected(code, prev) ==
    IF detectFramework(code, prev) = Null THEN code
    ELSE [code EXCEPT !.dataset = detectFramework(code, prev)]

(***************************************************************************)
(* stripMarkerLine (lines 202-239)                                         *)
(***************************************************************************)
RECURSIVE StripIndex(_, _)
\* index of the line the loop splices out, 0 when it removes none
StripIndex(lines, i) ==
    IF i > Min(Len(lines), maxLinesToCheck) THEN 0
    ELSE LET line == lines[i] IN
         IF line.t = "blank" THEN StripIndex(lines, i + 1)
         ELSE IF markerPattern /\ line.t = "marker" THEN i
         ELSE IF labelPattern /\ line.t = "label" THEN i
         ELSE IF ~line.cmt THEN 0
         ELSE StripIndex(lines, i + 1)

RemoveAt(s, i) == [j \in 1..(Len(s) - 1) |-> IF j < i THEN s[j] ELSE s[j + 1]]

stripMarkerLine(code) ==
    IF code.stripped THEN code
    ELSE LET i == StripIndex(code.lines, 1) IN
         [code EXCEPT !.stripped = TRUE,
                      !.lines = IF i = 0 THEN code.lines ELSE RemoveAt(code.lines, i)]

(***************************************************************************)
(* Groups and switchers                                                    *)
(***************************************************************************)
Button(fw, pressed) == [fw |-> fw, pressed |-> pressed, shown |-> TRUE]

RECURSIVE PrevElementIn(_, _)
\* previousElementSibling of the node at index i of the sibling list ns
PrevElementIn(ns, i) ==
    IF i <= 1 THEN NoNode
    ELSE IF IsElement(ns[i - 1]) THEN ns[i - 1]
    ELSE PrevElementIn(ns, i - 1)

\* previous element sibling of the pre of a code block: a pre inside a box is
\* an only child; the first pre of a group follows the switcher div
PrevOf(ns, i, inGroup) ==
    IF ns[i].k = "box" THEN NoNode
    ELSE IF PrevElementIn(ns, i) = NoNode /\ inGroup THEN Element
    ELSE PrevElementIn(ns, i)

\* codeBlock.dataset.framework || detectFramework(codeBlock), for the block
\* at index i of the kids of a group
FrameworkOf(kids, i) == detectFramework(kids[i], PrevOf(kids, i, TRUE))

\* CONFIG.frameworks.filter((fw) => set.has(fw))
InPreferredOrder(set) ==
    LET idx == SelectIdx(frameworks, LAMBDA fw : fw \in set, 1)
    IN [j \in 1..Len(idx) |-> frameworks[idx[j]]]

\* getAvailableFrameworks (lines 331-345)
getAvailableFrameworks(group) ==
    InPreferredOrder({FrameworkOf(group.kids, i) :
                        i \in {j \in DOMAIN group.kids : IsCode(group.kids[j])}} \ {Null})

\* the kids after the calls of detectFramework made while reading their frameworks
KidsDetected(kids) ==
    [i \in DOMAIN kids |->
        IF IsCode(kids[i]) THEN Detected(kids[i], PrevOf(kids, i, TRUE)) ELSE kids[i]]

updateGroupVisibilityNoFallback(group, current) ==
    [group EXCEPT !.kids =
        [i \in DOMAIN group.kids |->
            LET n == KidsDetected(group.kids)[i] IN
            IF IsCode(n) /\ FrameworkOf(group.kids, i) # Null
            THEN [n EXCEPT !.hidden = (FrameworkOf(group.kids, i) # current)]
            ELSE n]]

\* updateGroupVisibility (lines 278-329)
updateGroupVisibility(group, current) ==
    LET kids == group.kids
        fwOf(i) == FrameworkOf(kids, i)
        codeIdx == {i \in DOMAIN kids : IsCode(kids[i])}
        \* first loop: hide every block whose framework is not the current one
        visibleFramework == \E i \in codeIdx : fwOf(i) # Null /\ fwOf(i) = current
        available == getAvailableFrameworks(group)
        showFirst == ~visibleFramework /\ codeIdx # {} /\ Len(available) > 0
    IN [group EXCEPT !.kids =
        [i \in DOMAIN kids |->
            LET n == KidsDetected(kids)[i] IN
            IF IsCode(n) /\ fwOf(i) # Null
            THEN [n EXCEPT !.hidden =
                    IF fwOf(i) = current THEN FALSE
                    ELSE IF showFirst /\ fwOf(i) = available[1] THEN FALSE
                    ELSE TRUE]
            ELSE n]]

\* the body of updateAllSwitchers for one group (lines 355-389)
updateSwitcher(group, current) ==
    LET available == getAvailableFrameworks(group)
        fallback == current \notin Range(available) /\ Len(available) > 0
        \* querySelector: the first button with that data-framework
        firstIdx == SelectIdx(group.buttons,
                              LAMBDA b : fallback /\ b.fw = available[1], 1)
    IN [group EXCEPT !.buttons =
        [i \in DOMAIN group.buttons |->
            LET b == group.buttons[i] IN
            IF b.fw \notin Range(available)
            THEN [b EXCEPT !.shown = FALSE]
            ELSE [b EXCEPT !.shown = TRUE,
                           !.pressed = IF firstIdx # <<>> /\ firstIdx[1] = i THEN TRUE
                                       ELSE b.fw = current]]]

\* updateAllGroups (lines 347-350) followed by updateAllSwitchers (352-390)
updateAll(nodes, current) ==
    [i \in DOMAIN nodes |->
        IF nodes[i].k = "group"
        THEN updateSwitcher(updateGroupVisibility(nodes[i], current), current)
        ELSE nodes[i]]

(***************************************************************************)
(* processPage (lines 431-566)                                             *)
(***************************************************************************)
\* lines 433-440: forget the cached framework of every block inside a group
ClearGroups(nodes) ==
    [i \in DOMAIN nodes |->
        IF nodes[i].k = "group"
        THEN [nodes[i] EXCEPT !.kids =
                [j \in DOMAIN nodes[i].kids |->
                    IF IsCode(nodes[i].kids[j])
                    THEN [nodes[i].kids[j] EXCEPT !.dataset = Null, !.stripped = FALSE]
                    ELSE nodes[i].kids[j]]]
        ELSE nodes[i]]

\* lines 542-545: detectFramework, then stripMarkerLine when a framework was
\* found, for every code block outside a group
DetectAndStrip(nodes) ==
    [i \in DOMAIN nodes |->
        IF IsCode(nodes[i]) /\ detectFramework(nodes[i], PrevOf(nodes, i, FALSE)) # Null
        THEN stripMarkerLine(Detected(nodes[i], PrevOf(nodes, i, FALSE)))
        ELSE nodes[i]]

RECURSIVE OnlySkippable(_, _, _)
\* the sibling walk of isAdjacentBlock (lines 404-428) from index i up to j
OnlySkippable(nodes, i, j) ==
    IF i >= j THEN TRUE
    ELSE LET sibling == nodes[i] IN
         IF ~IsElement(sibling) THEN OnlySkippable(nodes, i + 1, j)
         ELSE IF sibling.k = "p" /\ sibling.ptext.t = "empty"
              THEN OnlySkippable(nodes, i + 1, j)
         ELSE IF IsLabelPara(sibling) THEN OnlySkippable(nodes, i + 1, j)
         ELSE FALSE

isAdjacentBlockNoWalk(nodes, batch, cur) ==
    IF batch = <<>> THEN FALSE
    ELSE nodes[batch[Len(batch)]].k = "pre" /\ nodes[cur].k = "pre"

\* isAdjacentBlock (lines 392-429); batch and cur are indices into nodes
isAdjacentBlock(nodes, batch, cur) ==
    IF batch = <<>> THEN FALSE
    ELSE LET last == batch[Len(batch)] IN
         IF ~(nodes[last].k = "pre" /\ nodes[cur].k = "pre") THEN FALSE
         ELSE OnlySkippable(nodes, last + 1, cur)

RECURSIVE Batches(_, _, _)
\* the batch loop (lines 539-565): the batches handed to createGroupFromBatch,
\* each a sequence of indices of code blocks
Batches(nodes, i, batch) ==
    IF i > Len(nodes) THEN <<batch>>
    ELSE IF ~IsCode(nodes[i]) THEN Batches(nodes, i + 1, batch)
    ELSE IF ~Falsy(nodes[i].dataset)
         THEN IF batch = <<>> \/ isAdjacentBlock(nodes, batch, i)
              THEN Batches(nodes, i + 1, Append(batch, i))
              ELSE <<batch>> \o Batches(nodes, i + 1, <<i>>)
         ELSE <<batch>> \o Batches(nodes, i + 1, <<>>)

\* lines 472-479
selectedFrameworkOf(available, current) ==
    IF current \notin Range(available) /\ Len(available) > 0
    THEN available[1] ELSE current

\* createSwitcher (lines 248-276)
createSwitcher(selectedFramework, available) ==
    [i \in DOMAIN available |-> Button(available[i], available[i] = selectedFramework)]

RECURSIVE MovedIdx(_, _, _)
\* elementsToMove (lines 489-508): indices of the label paragraphs and of the
\* pre elements of the batch, from the first pre to the last
MovedIdx(nodes, batch, i) ==
    IF i > batch[Len(batch)] THEN <<>>
    ELSE (IF nodes[i].k = "p"
          THEN (IF IsLabelPara(nodes[i]) THEN <<i>> ELSE <<>>)
          ELSE IF i \in Range(batch) THEN <<i>> ELSE <<>>)
         \o MovedIdx(nodes, batch, i + 1)

\* the group element createGroupFromBatch builds from a batch (lines 457-526)
GroupOf(nodes, batch, current) ==
    LET first == batch[1]
        last == batch[Len(batch)]
        batchFrameworks == {nodes[batch[j]].dataset : j \in DOMAIN batch}
        available == InPreferredOrder(batchFrameworks)
        sel == selectedFrameworkOf(available, current)
        moved == MovedIdx(nodes, batch, first)
        kids == [j \in 1..Len(moved) |-> nodes[moved[j]]]
        kidsD == KidsDetected(kids)
    IN [Node("group", 0, <<>>, {}, NoText) EXCEPT
            !.buttons = createSwitcher(sel, available),
            !.kids = [j \in DOMAIN kids |->
                        IF IsCode(kids[j]) /\ FrameworkOf(kids, j) # Null
                           /\ FrameworkOf(kids, j) # sel
                        THEN [kidsD[j] EXCEPT !.hidden = TRUE]
                        ELSE kidsD[j]]]

\* what is left in the parent between the first and last pre of a batch
LeftBehind(nodes, batch) ==
    LET first == batch[1]
        last == batch[Len(batch)]
        moved == Range(MovedIdx(nodes, batch, first))
        idx == SelectIdx([j \in 1..(last - first + 1) |-> first + j - 1],
                         LAMBDA j : j \notin moved, 1)
    IN [j \in 1..Len(idx) |-> nodes[first + idx[j] - 1]]

createGroupFromBatchAlways(nodes, batch, current) ==
    <<GroupOf(nodes, batch, current)>> \o LeftBehind(nodes, batch)

\* createGroupFromBatch (lines 450-537): the nodes that replace the span of the batch
createGroupFromBatch(nodes, batch, current) ==
    IF Len(batch) < 2 THEN SubSeq(nodes, batch[1], batch[Len(batch)])
    ELSE <<GroupOf(nodes, batch, current)>> \o LeftBehind(nodes, batch)

RECURSIVE Rebuild(_, _, _, _)
\* the children of the content element after every batch was handed over
Rebuild(nodes, batches, i, current) ==
    IF i > Len(nodes) THEN <<>>
    ELSE IF batches # <<>> /\ Head(batches) # <<>> /\ Head(batches)[1] = i
         THEN createGroupFromBatch(nodes, Head(batches), current)
              \o Rebuild(nodes, Tail(batches), Head(batches)[Len(Head(batches))] + 1, current)
    ELSE IF batches # <<>> /\ Head(batches) = <<>>
         THEN Rebuild(nodes, Tail(batches), i, current)
    ELSE <<nodes[i]>> \o Rebuild(nodes, batches, i + 1, current)

processPage(nodes, current) ==
    LET detected == DetectAndStrip(ClearGroups(nodes))
    IN Rebuild(detected, Batches(detected, 1, <<>>), 1, current)

(***************************************************************************)
(* Pages of the documentation, as Docsify renders them                     *)
(***************************************************************************)
\* a run of three marked blocks, a block whose marker comes after code, and a
\* lone marked block (cf. the SSR page: hono / express / koa)
PageSsr ==
    <<Element,
      Pre(1, <<Marker(hono), Code>>), TextNode,
      Pre(2, <<Marker(express), Code, Code>>), TextNode,
      Pre(3, <<Marker(hono), Code>>),
      Para("text", Empty),
      Pre(4, <<Code, Marker(react)>>),
      Pre(5, <<Marker(react), Code>>)>>

\* spellings of names, an unconfigured name, two markers in one block, and a
\* run in which every block carries the same tag
PageNames ==
    <<Pre(1, <<Blank, Marker(HonoCaps), Code>>), Para("empty", Empty),
      Pre(2, <<Comment, Marker(reactSpaced), Code>>),
      Element,
      Pre(3, <<Marker(nestjs), Marker(express), Code>>), TextNode,
      Pre(4, <<Marker(express), Marker(hono), Code>>),
      Pre(5, <<Marker(nestjs), Code>>), TextNode,
      Pre(6, <<Marker(hono), Code>>)>>

\* label paragraphs, a block inside another element, a class name, a marker
\* below the line limit, and a label line inside a block
PageLabels ==
    <<Para("label", hono), Pre(1, <<Code>>),
      Para("label", express), Pre(2, <<Code, Code>>),
      Box(3, <<Marker(hono), Code>>),
      PreClass(4, <<Code>>, {react}), TextNode,
      Pre(5, <<Label(express), Code>>),
      Element,
      Pre(6, <<Comment, Comment, Blank, Comment, Comment, Marker(hono)>>),
      Pre(7, <<Marker(react), Code>>)>>

Pages == <<PageSsr, PageNames, PageLabels>>

\* values found in local storage when the script loads
angular == <<"a", "n", "g", "u", "l", "a", "r">>
StoredValues == {Null, Empty, hono, react, angular}
Defaults == {hono, Empty}

MaxPending == 2

(***************************************************************************)
(* framework-switcher.js: operations                                       *)
(***************************************************************************)
\* line 96-97: localStorage.getItem(CONFIG.storageKey) || CONFIG.defaultFramework
LoadFramework(ls, default) ==
    IF Falsy(ls[storageKey]) THEN default ELSE ls[storageKey]

HookInitKeepsStorage ==
    /\ pc = "loaded"
    /\ pc' = "ready"
    /\ currentFramework' = IF currentFramework \notin frameworkSet
                           THEN defaultFramework ELSE currentFramework
    /\ UNCHANGED <<localStorage, defaultFramework, page, dom, pendingProcess, selected>>
    /\ UNCHANGED <<otpVars, detVars>>

\* hook.init (lines 570-576)
HookInit ==
    /\ pc = "loaded"
    /\ pc' = "ready"
    /\ IF currentFramework \notin frameworkSet
       THEN /\ currentFramework' = defaultFramework
            /\ localStorage' = [localStorage EXCEPT ![storageKey] = defaultFramework]
       ELSE UNCHANGED <<currentFramework, localStorage>>
    /\ UNCHANGED <<defaultFramework, page, dom, pendingProcess, selected>>
    /\ UNCHANGED <<otpVars, detVars>>

\* Docsify renders page p into the content element and calls hook.doneEach
\* (lines 578-583), which requests an animation frame for processPage
FwDoneEach(p) ==
    /\ pc = "ready"
    /\ pendingProcess < MaxPending
    /\ page' = p
    /\ dom' = Pages[p]
    /\ pendingProcess' = pendingProcess + 1
    /\ UNCHANGED <<pc, currentFramework, localStorage, defaultFramework, selected>>
    /\ UNCHANGED <<otpVars, detVars>>

RECURSIVE Times(_, _, _)
Times(n, nodes, current) ==
    IF n = 0 THEN nodes ELSE Times(n - 1, processPage(nodes, current), current)

\* the browser runs the requested animation-frame callbacks, in order
FwFrame ==
    /\ pendingProcess > 0
    /\ dom' = Times(pendingProcess, dom, currentFramework)
    /\ pendingProcess' = 0
    /\ UNCHANGED <<pc, currentFramework, localStorage, defaultFramework, page, selected>>
    /\ UNCHANGED <<otpVars, detVars>>

setItemSkipped(ls, framework) == ls

\* localStorage.setItem(CONFIG.storageKey, framework) (line 103)
setItem(ls, framework) == [ls EXCEPT ![storageKey] = framework]

setFrameworkAlways(framework) ==
    /\ currentFramework' = framework
    /\ localStorage' = setItem(localStorage, framework)
    /\ dom' = updateAll(dom, framework)

\* setFramework (lines 99-106)
setFramework(framework) ==
    IF currentFramework = framework
    THEN UNCHANGED <<currentFramework, localStorage, dom>>
    ELSE /\ currentFramework' = framework
         /\ localStorage' = setItem(localStorage, framework)
         /\ dom' = updateAll(dom, framework)

\* the click listener of a switcher button (lines 267-270); a button with
\* display none cannot be clicked
Click(g, b) ==
    /\ pc = "ready"
    /\ dom[g].k = "group"
    /\ b \in DOMAIN dom[g].buttons
    /\ dom[g].buttons[b].shown
    /\ setFramework(dom[g].buttons[b].fw)
    /\ selected' = dom[g].buttons[b].fw
    /\ UNCHANGED <<pc, defaultFramework, page, pendingProcess>>
    /\ UNCHANGED <<otpVars, detVars>>

ClickButton == \E g \in DOMAIN dom : \E b \in 1..Len(frameworks) : Click(g, b)

\* the user reloads the site: the script is evaluated again
Reload ==
    /\ pc = "ready"
    /\ pc' = "loaded"
    /\ currentFramework' = LoadFramework(localStorage, defaultFramework)
    /\ page' = 0
    /\ dom' = <<>>
    /\ pendingProcess' = 0
    /\ UNCHANGED <<localStorage, defaultFramework, selected>>
    /\ UNCHANGED <<otpVars, detVars>>

(***************************************************************************)
(* on-this-page.js: strings                                                *)
(*                                                                         *)
(* A heading text and an id are sequences of characters; a route, a hash   *)
(* and an href are sequences of tokens ("#", "/", "?", "id", "=", names).  *)
(***************************************************************************)
Punctuation == {"!", "?", ".", "&"}
\* \w of the regular expressions, over the characters used here
IsWordChar(c) == ~IsSpace(c) /\ c # "-" /\ c \notin Punctuation

RECURSIVE TrimLeft(_)
TrimLeft(s) == IF s # <<>> /\ IsSpace(Head(s)) THEN TrimLeft(Tail(s)) ELSE s

RECURSIVE TrimRight(_)
TrimRight(s) ==
    IF s # <<>> /\ IsSpace(s[Len(s)]) THEN TrimRight(SubSeq(s, 1, Len(s) - 1)) ELSE s

\* String.prototype.trim
Trim(s) == TrimRight(TrimLeft(s))

RECURSIVE Lower(_)
Lower(s) == IF s = <<>> THEN <<>> ELSE <<toLowerCase(Head(s))>> \o Lower(Tail(s))

RECURSIVE KeepWordSpaceHyphen(_)
\* replace(/[^\w\s-]/g, "")
KeepWordSpaceHyphen(s) ==
    IF s = <<>> THEN <<>>
    ELSE (IF IsWordChar(Head(s)) \/ IsSpace(Head(s)) \/ Head(s) = "-"
          THEN <<Head(s)>> ELSE <<>>) \o KeepWordSpaceHyphen(Tail(s))

RECURSIVE SpacesToHyphen(_)
\* replace(/\s+/g, "-")
SpacesToHyphen(s) ==
    IF s = <<>> THEN <<>>
    ELSE IF IsSpace(Head(s)) THEN <<"-">> \o SpacesToHyphen(TrimLeft(s))
    ELSE <<Head(s)>> \o SpacesToHyphen(Tail(s))

RECURSIVE DropHyphens(_)
DropHyphens(s) == IF s # <<>> /\ Head(s) = "-" THEN DropHyphens(Tail(s)) ELSE s

RECURSIVE CollapseHyphens(_)
\* replace(/--+/g, "-")
CollapseHyphens(s) ==
    IF s = <<>> THEN <<>>
    ELSE IF Head(s) = "-" THEN <<"-">> \o CollapseHyphens(DropHyphens(s))
    ELSE <<Head(s)>> \o CollapseHyphens(Tail(s))

\* the id generated for a heading without one (lines 248-253)
Slug(text) ==
    Trim(CollapseHyphens(SpacesToHyphen(KeepWordSpaceHyphen(Lower(text)))))

RECURSIVE ReplaceHashSlash(_)
\* replace("#/", ""): removes the first occurrence
ReplaceHashSlash(h) ==
    IF Len(h) < 2 THEN h
    ELSE IF h[1] = "#" /\ h[2] = "/" THEN SubSeq(h, 3, Len(h))
    ELSE <<Head(h)>> \o ReplaceHashSlash(Tail(h))

RECURSIVE BeforeQuestionMark(_)
\* split("?")[0]
BeforeQuestionMark(h) ==
    IF h = <<>> \/ Head(h) = "?" THEN <<>>
    ELSE <<Head(h)>> \o BeforeQuestionMark(Tail(h))

CurrentPathKeepsSlash(route, locationHash) ==
    LET fromHash == BeforeQuestionMark(ReplaceHashSlash(locationHash))
    IN IF route # <<>> THEN route
       ELSE IF fromHash # <<>> THEN fromHash
       ELSE <<"README">>

\* currentPath of createOnThisPageSidebar (lines 286-302)
CurrentPath(route, locationHash) ==
    LET stripped == IF route # <<>> /\ Head(route) = "/" THEN Tail(route) ELSE route
        fromHash == BeforeQuestionMark(ReplaceHashSlash(locationHash))
    IN IF stripped # <<>> THEN stripped
       ELSE IF fromHash # <<>> THEN fromHash
       ELSE <<"README">>

\* `#/${currentPath}?id=${id}` (line 304)
Href(path, id) == <<"#", "/">> \o path \o <<"?", "id", "=">> \o id

(***************************************************************************)
(* on-this-page.js: building the navigation list (lines 231-312)           *)
(*                                                                         *)
(* A heading: [level, text, id, top] (top: offset from the document top).  *)
(* The list under construction: lists[k] is a ul with its parent element   *)
(* (<<"nav", 0>> for the root, <<"li", l>> for the li of link l,           *)
(* <<"ul", j>> for list j) and its child elements in order; links[l] is    *)
(* the li and a made for a heading.                                        *)
(***************************************************************************)
Heading(level, text, id, top) == [level |-> level, text |-> text, id |-> id, top |-> top]

\* lines 245-255: the ids of the headings after the loop
AssignIds(hs) ==
    [i \in DOMAIN hs |->
        IF hs[i].level # 1 /\ hs[i].id = Empty
        THEN [hs[i] EXCEPT !.id = Slug(Trim(hs[i].text))]
        ELSE hs[i]]

NavStart ==
    [level |-> 0, cur |-> 1, stack |-> <<1>>,
     lists |-> <<[parent |-> <<"nav", 0>>, kids |-> <<>>]>>,
     links |-> <<>>]

\* one iteration of the loop of lines 260-270
NestOnce(st) ==
    LET new == Len(st.lists) + 1
        kids == st.lists[st.cur].kids
        \* lastElementChild of the current list, or the list itself
        parent == IF kids = <<>> THEN <<"ul", st.cur>> ELSE kids[Len(kids)]
        grown == IF parent[1] = "ul"
                 THEN [st.lists EXCEPT ![parent[2]].kids = Append(@, <<"ul", new>>)]
                 ELSE st.lists
    IN [st EXCEPT !.lists = Append(grown, [parent |-> parent, kids |-> <<>>]),
                  !.stack = Append(st.stack, new),
                  !.cur = new]

RECURSIVE Nest(_, _)
Nest(st, n) == IF n <= 0 THEN st ELSE Nest(NestOnce(st), n - 1)

RECURSIVE Pop(_, _)
\* the loop of lines 274-276
Pop(stack, n) ==
    IF n <= 0 \/ Len(stack) <= 1 THEN stack
    ELSE Pop(SubSeq(stack, 1, Len(stack) - 1), n - 1)

\* lines 257-278
AdjustNesting(st, level) ==
    IF level > st.level THEN Nest(st, level - 1 - st.level)
    ELSE IF level < st.level
         THEN LET popped == Pop(st.stack, st.level - level + 1)
              IN [st EXCEPT !.stack = popped, !.cur = popped[Len(popped)]]
    ELSE st

AddHeadingKeepsH1(st, hs, i, path) ==
    LET adj == AdjustNesting(st, hs[i].level)
        l == Len(adj.links) + 1
    IN [adj EXCEPT
           !.level = hs[i].level,
           !.links = Append(@, [h |-> i, id |-> hs[i].id,
                                href |-> Href(path, hs[i].id),
                                text |-> Trim(hs[i].text),
                                list |-> adj.cur, active |-> FALSE]),
           !.lists = [@ EXCEPT ![adj.cur].kids = Append(@, <<"li", l>>)]]

\* one heading of the forEach of lines 238-310; hs are the headings with
\* their ids assigned, path is currentPath
AddHeading(st, hs, i, path) ==
    IF hs[i].level = 1 THEN st
    ELSE LET adj == AdjustNesting(st, hs[i].level)
             l == Len(adj.links) + 1
         IN [adj EXCEPT
                !.level = hs[i].level,
                !.links = Append(@, [h |-> i, id |-> hs[i].id,
                                     href |-> Href(path, hs[i].id),
                                     text |-> Trim(hs[i].text),
                                     list |-> adj.cur, active |-> FALSE]),
                !.lists = [@ EXCEPT ![adj.cur].kids = Append(@, <<"li", l>>)]]

RECURSIVE BuildNav(_, _, _, _)
BuildNav(st, hs, i, path) ==
    IF i > Len(hs) THEN st
    ELSE BuildNav(AddHeading(st, hs, i, path), hs, i + 1, path)

RECURSIVE ListDepth(_, _)
\* number of ul elements between list k and the root list of the sidebar
ListDepth(sb, k) ==
    IF sb.lists[k].parent[1] = "nav" THEN 0
    ELSE IF sb.lists[k].parent[1] = "ul" THEN 1 + ListDepth(sb, sb.lists[k].parent[2])
    ELSE 1 + ListDepth(sb, sb.links[sb.lists[k].parent[2]].list)

\* the .on-this-page element of lines 222-320; watchers are the scroll
\* handlers whose links include the links of this sidebar
NewSidebar(hs, path) ==
    LET nav == BuildNav(NavStart, hs, 1, path)
    IN [links |-> nav.links, lists |-> nav.lists, watchers |-> {}]

(***************************************************************************)
(* on-this-page.js: the left sidebar of Docsify                            *)
(*                                                                         *)
(* leftSidebar: [aside, nav, hasUl, items]; aside and nav say whether      *)
(* aside.sidebar and .sidebar-nav exist; items are the li elements of the  *)
(* top ul.  An li: [link, href, text, active, hasUl, ul]; link says        *)
(* whether the li has an a; text is the text of the li itself or of its a. *)
(***************************************************************************)
Li(link, href, text, active, ul) ==
    [link |-> link, href |-> href, text |-> text, active |-> active,
     hasUl |-> ul # <<>>, ul |-> ul]

\* a[href*="?id="]
HasIdQuery(href) ==
    \E i \in 1..(Len(href) - 2) : href[i] = "?" /\ href[i + 1] = "id" /\ href[i + 2] = "="

RECURSIVE AllLis(_)
\* the li elements below a ul, in document order
AllLis(ul) ==
    IF ul = <<>> THEN <<>>
    ELSE <<Head(ul)>> \o AllLis(Head(ul).ul) \o AllLis(Tail(ul))

RECURSIVE RemoveIdLinks(_)
\* lines 144-150: remove the li of every link whose href contains ?id=
RemoveIdLinks(ul) ==
    IF ul = <<>> THEN <<>>
    ELSE IF Head(ul).link /\ HasIdQuery(Head(ul).href) THEN RemoveIdLinks(Tail(ul))
    ELSE <<[Head(ul) EXCEPT !.ul = RemoveIdLinks(@)]>> \o RemoveIdLinks(Tail(ul))

\* hasValidContent (lines 156-159): some li below the ul has a link or text
HasValidContent(ul) == \E li \in Range(AllLis(ul)) : li.link \/ li.text # Empty

RECURSIVE RemoveEmptyUls(_)
\* lines 153-164, below the top ul
RemoveEmptyUls(ul) ==
    IF ul = <<>> THEN <<>>
    ELSE <<IF Head(ul).hasUl /\ ~HasValidContent(Head(ul).ul)
           THEN [Head(ul) EXCEPT !.hasUl = FALSE, !.ul = <<>>]
           ELSE [Head(ul) EXCEPT !.ul = RemoveEmptyUls(@)]>>
         \o RemoveEmptyUls(Tail(ul))

RECURSIVE RemoveEmptyLis(_)
\* lines 167-176
RemoveEmptyLis(ul) ==
    IF ul = <<>> THEN <<>>
    ELSE IF ~Head(ul).link /\ ~Head(ul).hasUl /\ Head(ul).text = Empty
         THEN RemoveEmptyLis(Tail(ul))
    ELSE <<[Head(ul) EXCEPT !.ul = RemoveEmptyLis(@)]>> \o RemoveEmptyLis(Tail(ul))

RECURSIVE MarkFirstHref(_, _)
\* add the class active to the li of the first link, in document order,
\* whose href is the given one: <<the new list, whether a link was found>>
MarkFirstHref(ul, href) ==
    IF ul = <<>> THEN << <<>>, FALSE >>
    ELSE IF Head(ul).link /\ Head(ul).href = href
         THEN << <<[Head(ul) EXCEPT !.active = TRUE]>> \o Tail(ul), TRUE >>
    ELSE LET inner == MarkFirstHref(Head(ul).ul, href) IN
         IF inner[2]
         THEN << <<[Head(ul) EXCEPT !.ul = inner[1]]>> \o Tail(ul), TRUE >>
         ELSE LET rest == MarkFirstHref(Tail(ul), href)
              IN << <<Head(ul)>> \o rest[1], rest[2] >>

RECURSIVE MarkFirstText(_, _)
\* the same for the first link whose trimmed text is the given one
MarkFirstText(ul, text) ==
    IF ul = <<>> THEN << <<>>, FALSE >>
    ELSE IF Head(ul).link /\ Head(ul).text = text
         THEN << <<[Head(ul) EXCEPT !.active = TRUE]>> \o Tail(ul), TRUE >>
    ELSE LET inner == MarkFirstText(Head(ul).ul, text) IN
         IF inner[2]
         THEN << <<[Head(ul) EXCEPT !.ul = inner[1]]>> \o Tail(ul), TRUE >>
         ELSE LET rest == MarkFirstText(Tail(ul), text)
              IN << <<Head(ul)>> \o rest[1], rest[2] >>

\* lines 178-199: restore the active state
RestoreActive(ul, activeHref, activeText) ==
    LET byHref == MarkFirstHref(ul, activeHref)
        byText == MarkFirstText(ul, activeText)
    IN IF byHref[2] THEN byHref[1] ELSE byText[1]

\* the function without its two early returns: querySelector is called on null
removeNestedFromLeftSidebarUnguarded(ls) ==
    [ls |-> [ls EXCEPT !.items = RemoveIdLinks(ls.items)],
     threw |-> ~ls.aside \/ ~ls.nav]

\* removeNestedFromLeftSidebar (lines 123-200): the left sidebar afterwards,
\* and whether the call raised an error
removeNestedFromLeftSidebar(ls) ==
    IF ~ls.aside THEN [ls |-> ls, threw |-> FALSE]
    ELSE IF ~ls.nav THEN [ls |-> ls, threw |-> FALSE]
    ELSE LET act == SelectIdx(AllLis(ls.items), LAMBDA li : li.active /\ li.link, 1)
             activeHref == IF act = <<>> THEN Null ELSE AllLis(ls.items)[act[1]].href
             activeText == IF act = <<>> THEN Null ELSE AllLis(ls.items)[act[1]].text
             removed == RemoveIdLinks(ls.items)
             topGone == ls.hasUl /\ ~HasValidContent(removed)
             cleaned == IF topGone \/ ~ls.hasUl THEN <<>>
                        ELSE RemoveEmptyLis(RemoveEmptyUls(removed))
         IN [ls |-> [ls EXCEPT
                        !.hasUl = ls.hasUl /\ ~topGone,
                        !.items = IF ~Falsy(activeHref) /\ ~Falsy(activeText)
                                  THEN RestoreActive(cleaned, activeHref, activeText)
                                  ELSE cleaned],
             threw |-> FALSE]

\* href of the left sidebar compared with window.location.hash.replace("#", "")
WithoutHash(h) ==
    LET i == SelectIdx(h, LAMBDA t : t = "#", 1)
    IN IF i = <<>> THEN h ELSE RemoveAt(h, i[1])

\* the callback updateLeftSidebarActiveState schedules (lines 372-409)
leftSidebarTimer(ls, locationHash) ==
    IF ~ls.aside THEN ls
    ELSE IF ~ls.nav THEN ls
    ELSE IF \E li \in Range(AllLis(ls.items)) : li.active THEN ls
    ELSE LET byHash == MarkFirstHref(ls.items, locationHash)
             byPath == MarkFirstHref(ls.items, WithoutHash(locationHash))
         IN [ls EXCEPT !.items = IF byHash[2] THEN byHash[1] ELSE byPath[1]]

(***************************************************************************)
(* on-this-page.js: scroll spy (lines 412-477)                             *)
(*                                                                         *)
(* A handler is one closure handleScroll registered on window:             *)
(* [hd, attached, ticking]; hd are the heading elements it captured, each  *)
(* [idx, id]; attached says whether these elements are still in the        *)
(* document (a render replaces the content).                               *)
(***************************************************************************)
\* document.getElementById: the first element of the document with that id
getElementById(hs, id) ==
    LET found == SelectIdx(hs, LAMBDA h : id # Empty /\ h.id = id, 1)
    IN IF found = <<>> THEN 0 ELSE found[1]

\* every a[data-heading-id] of every .on-this-page of the document
AllLinks(sbs) == Flatten([k \in DOMAIN sbs |-> sbs[k].links])

\* lines 413-419: the headings of a new handler
CapturedHeadings(sbs, hs) ==
    LET links == AllLinks(sbs)
        found == SelectIdx(links, LAMBDA l : getElementById(hs, l.id) # 0, 1)
    IN [j \in 1..Len(found) |->
            [idx |-> getElementById(hs, links[found[j]].id), id |-> links[found[j]].id]]

Threshold == 100

\* heading.getBoundingClientRect().top; an element that is not in the
\* document has an empty rectangle
RectTop(handler, e, hs, y) == IF handler.attached THEN hs[e.idx].top - y ELSE 0

\* lines 431-447
ActiveHeading(handler, hs, y) ==
    LET above == SelectIdx(handler.hd, LAMBDA e : RectTop(handler, e, hs, y) <= Threshold, 1)
    IN IF above # <<>> THEN handler.hd[above[Len(above)]] ELSE handler.hd[1]

RECURSIVE ActivateFirst(_, _)
\* document.querySelector('.on-this-page a[data-heading-id="id"]') and
\* classList.add("active") (lines 450-457)
ActivateFirst(sbs, id) ==
    IF sbs = <<>> THEN <<>>
    ELSE LET found == SelectIdx(Head(sbs).links, LAMBDA l : l.id = id, 1) IN
         IF found # <<>>
         THEN <<[Head(sbs) EXCEPT !.links[found[1]].active = TRUE]>> \o Tail(sbs)
         ELSE <<Head(sbs)>> \o ActivateFirst(Tail(sbs), id)

\* links.forEach((link) => link.classList.remove("active")) (line 428)
Deactivate(sbs, h) ==
    [k \in DOMAIN sbs |->
        IF h \in sbs[k].watchers
        THEN [sbs[k] EXCEPT !.links = [l \in DOMAIN @ |-> [@[l] EXCEPT !.active = FALSE]]]
        ELSE sbs[k]]

\* updateActiveLink of handler h (lines 423-461): the sidebars afterwards
updateActiveLink(sbs, hdl, h, hs, y) ==
    ActivateFirst(Deactivate(sbs, h), ActiveHeading(hdl[h], hs, y).id)

MaxHandlers == 2
\* pending timers are counted up to this number: the callback has no
\* parameters and running it twice in a row changes nothing more
MaxTimers == 3

AddTimers(n, k) == Min(n + k, MaxTimers)

(***************************************************************************)
(* Pages, as Docsify renders them for on-this-page.js                      *)
(***************************************************************************)
NoLeftSidebar == [aside |-> FALSE, nav |-> FALSE, hasUl |-> FALSE, items |-> <<>>]
NoSidebarNav == [aside |-> TRUE, nav |-> FALSE, hasUl |-> FALSE, items |-> <<>>]

GuideHref == <<"#", "/", "guide">>
\* the page link is active and carries the heading links Docsify generated
LeftGuide ==
    [aside |-> TRUE, nav |-> TRUE, hasUl |-> TRUE,
     items |-> <<Li(FALSE, Empty, <<"S">>, FALSE,
                    <<Li(TRUE, GuideHref, <<"G">>, TRUE,
                         <<Li(TRUE, Href(<<"guide">>, <<"a">>), <<"A">>, FALSE, <<>>),
                           Li(TRUE, Href(<<"guide">>, <<"b">>), <<"B">>, FALSE, <<>>)>>),
                      Li(TRUE, <<"#", "/", "other">>, <<"O">>, FALSE, <<>>)>>)>>]
\* no li is active, and a heading link carries the text of the page link
LeftHome ==
    [aside |-> TRUE, nav |-> TRUE, hasUl |-> TRUE,
     items |-> <<Li(TRUE, <<"#", "/">>, <<"H">>, FALSE,
                    <<Li(TRUE, Href(<<>>, <<"a">>), <<"A">>, FALSE, <<>>)>>),
                 Li(TRUE, GuideHref, <<"G">>, FALSE, <<>>)>>]

OtpPage(route, locationHash, headings, left) ==
    [route |-> route, hash |-> locationHash, headings |-> headings, left |-> left]

\* h1, h2, h3, h2 with the ids Docsify gives them
OtpGuide ==
    OtpPage(<<"/", "guide">>, GuideHref,
            <<Heading(1, <<"T">>, <<"t">>, 0),
              Heading(2, <<"A">>, <<"a">>, 150),
              Heading(3, <<"B">>, <<"b">>, 400),
              Heading(2, <<"C">>, <<"c">>, 650)>>,
            LeftGuide)

\* the home page has no heading at all
OtpHome == OtpPage(<<"/">>, <<"#", "/">>, <<>>, LeftHome)

\* headings written as HTML carry no id: two of them get the same slug and
\* one gets the empty slug; the route is not known and the hash names the page
OtpRaw ==
    OtpPage(Empty, Href(<<"guide">>, <<"a">>),
            <<Heading(2, <<"A", " ", "b">>, Empty, 150),
              Heading(4, <<" ", "a", " ", " ", "b", "!">>, Empty, 400),
              Heading(3, <<"!">>, Empty, 650)>>,
            NoSidebarNav)

\* neither a route nor a hash; the ids also occur on the guide page
OtpBare ==
    OtpPage(Empty, Empty,
            <<Heading(3, <<"A">>, <<"a">>, 150),
              Heading(4, <<"C">>, <<"c">>, 400)>>,
            NoLeftSidebar)

OtpPages == <<OtpGuide, OtpHome, OtpRaw, OtpBare>>

ScrollPositions == {0, 300, 600}

\* any page of up to MaxHeadings headings h1 to h6 (selector of lines 210-212),
\* each with an id of its own, 250 pixels apart
MaxHeadings == 4
LevelSeqs == UNION {[1..n -> 1..6] : n \in 0..MaxHeadings}
HeadingsOf(levels) ==
    [i \in DOMAIN levels |->
        Heading(levels[i], <<"T">>, [j \in 1..i |-> "x"], 250 * i - 100)]

\* left sidebars as Docsify renders them from a _sidebar.md: a section
\* holding one or two page links and an empty item; the first page link may
\* carry links to headings (?id=), generated by Docsify or written in
\* _sidebar.md, which may have the text of a page link and may hold a nested
\* page link; at most one page link is marked active, and any heading link
OtherLi == Li(TRUE, <<"#", "/", "other">>, <<"O">>, FALSE, <<>>)
HeadingLis ==
    {Li(TRUE, Href(<<"guide">>, <<"a">>), text, active, nested) :
        text \in {<<"A">>, <<"G">>}, active \in BOOLEAN, nested \in {<<>>, <<OtherLi>>}}
SubSidebars == UNION {[1..n -> HeadingLis] : n \in 0..2}
PageLis(subs) ==
    {Li(TRUE, href, text, active, sub) :
        href \in {GuideHref, <<"#", "/", "other">>}, text \in {<<"G">>, <<"O">>},
        active \in BOOLEAN, sub \in subs}
EmptyLi == Li(FALSE, Empty, Empty, FALSE, <<>>)
LeftSidebars ==
    {NoLeftSidebar, NoSidebarNav}
    \cup {[aside |-> TRUE, nav |-> TRUE, hasUl |-> TRUE,
           items |-> <<Li(FALSE, Empty, <<"S">>, FALSE, pages), EmptyLi>>] :
            pages \in {<<p>> : p \in PageLis(SubSidebars)}
                      \cup {pq \in PageLis(SubSidebars) \X PageLis({<<>>}) :
                                ~(pq[1].active /\ pq[2].active)}}

(***************************************************************************)
(* on-this-page.js: operations                                             *)
(***************************************************************************)
Creates(q) == Len(SelectIdx(q, LAMBDA c : c = 0, 1))

\* Docsify renders page p: hook.beforeEach (lines 484-491), the new content
\* and left sidebar, then hook.doneEach (lines 493-501).  A callback of the
\* animation-frame queue is 0 for createOnThisPageSidebar, h > 0 for the
\* callback of handler h
OtpDoneEach(p) ==
    /\ running = <<>>
    /\ Creates(rafQueue) < MaxPending
    /\ Len(handlers) + Creates(rafQueue) < MaxHandlers
    /\ otpPage' = p
    /\ sidebar' = IF sidebar = <<>> THEN sidebar ELSE Tail(sidebar)
    /\ content' = OtpPages[p].headings
    /\ hash' = OtpPages[p].hash
    /\ leftSidebar' = OtpPages[p].left
    /\ handlers' = [h \in DOMAIN handlers |-> [handlers[h] EXCEPT !.attached = FALSE]]
    /\ currentRoute' = OtpPages[p].route
    /\ rafQueue' = Append(rafQueue, 0)
    /\ lastRun' = 0
    /\ UNCHANGED <<running, timers, scrollY, threw>>
    /\ UNCHANGED <<fwVars, detVars>>

ScrollUnthrottled(y) ==
    /\ running = <<>>
    /\ y # scrollY
    /\ Len(rafQueue) <= MaxHandlers
    /\ scrollY' = y
    /\ rafQueue' = rafQueue \o [h \in DOMAIN handlers |-> h]
    /\ handlers' = [h \in DOMAIN handlers |-> [handlers[h] EXCEPT !.ticking = TRUE]]
    /\ lastRun' = 0
    /\ UNCHANGED <<otpPage, currentRoute, hash, content, sidebar, leftSidebar, running,
                   timers, threw>>
    /\ UNCHANGED <<fwVars, detVars>>

\* a scroll event: every registered handleScroll runs (lines 465-473)
Scroll(y) ==
    /\ running = <<>>
    /\ y # scrollY
    /\ scrollY' = y
    /\ rafQueue' = rafQueue \o SelectIdx(handlers, LAMBDA h : ~h.ticking, 1)
    /\ handlers' = [h \in DOMAIN handlers |-> [handlers[h] EXCEPT !.ticking = TRUE]]
    /\ lastRun' = 0
    /\ UNCHANGED <<otpPage, currentRoute, hash, content, sidebar, leftSidebar, running,
                   timers, threw>>
    /\ UNCHANGED <<fwVars, detVars>>

\* the browser starts a frame: the callbacks requested so far will run
FrameStart ==
    /\ running = <<>>
    /\ rafQueue # <<>>
    /\ running' = rafQueue
    /\ rafQueue' = <<>>
    /\ lastRun' = 0
    /\ UNCHANGED <<otpPage, currentRoute, hash, content, sidebar, leftSidebar, handlers,
                   timers, scrollY, threw>>
    /\ UNCHANGED <<fwVars, detVars>>

\* the callback of handleScroll (lines 467-470)
RunTick ==
    /\ running # <<>>
    /\ Head(running) # 0
    /\ LET h == Head(running) IN
        /\ sidebar' = updateActiveLink(sidebar, handlers, h, content, scrollY)
        /\ handlers' = [handlers EXCEPT ![h].ticking = FALSE]
        /\ lastRun' = h
    /\ timers' = AddTimers(timers, 1)
    /\ running' = Tail(running)
    /\ UNCHANGED <<otpPage, currentRoute, hash, content, leftSidebar, rafQueue, scrollY, threw>>
    /\ UNCHANGED <<fwVars, detVars>>

RemoveExistingSkipped(sbs) == sbs

\* lines 203-207: querySelector finds the first .on-this-page, which is removed
RemoveExisting(sbs) == IF sbs = <<>> THEN sbs ELSE Tail(sbs)

\* createOnThisPageSidebar (lines 202-324) with setupScrollSpy (412-477)
RunCreate ==
    /\ running # <<>>
    /\ Head(running) = 0
    /\ running' = Tail(running)
    /\ LET removed == RemoveExisting(sidebar)
           left == removeNestedFromLeftSidebar(leftSidebar)
           hs == AssignIds(content)
           built == Append(removed, NewSidebar(hs, CurrentPath(currentRoute, hash)))
           hd == CapturedHeadings(built, hs)
           h == Len(handlers) + 1
           handler == [hd |-> hd, attached |-> TRUE, ticking |-> FALSE]
           watched == [k \in DOMAIN built |-> [built[k] EXCEPT !.watchers = @ \cup {h}]]
       IN IF content = <<>>
          THEN /\ sidebar' = removed
               /\ lastRun' = 0
               /\ UNCHANGED <<content, leftSidebar, handlers, timers, threw>>
          ELSE IF left.threw
          THEN /\ sidebar' = removed
               /\ threw' = TRUE
               /\ lastRun' = 0
               /\ UNCHANGED <<content, leftSidebar, handlers, timers>>
          ELSE /\ leftSidebar' = left.ls
               /\ content' = hs
               /\ IF hd = <<>>
                  THEN /\ sidebar' = built
                       /\ timers' = AddTimers(timers, 1)
                       /\ lastRun' = 0
                       /\ UNCHANGED handlers
                  ELSE /\ handlers' = Append(handlers, handler)
                       /\ sidebar' = updateActiveLink(watched, Append(handlers, handler),
                                                      h, hs, scrollY)
                       /\ timers' = AddTimers(timers, 2)
                       /\ lastRun' = h
               /\ UNCHANGED threw
    /\ UNCHANGED <<otpPage, currentRoute, hash, rafQueue, scrollY>>
    /\ UNCHANGED <<fwVars, detVars>>

\* a callback of updateLeftSidebarActiveState runs (lines 372-409)
Timer ==
    /\ running = <<>>
    /\ timers > 0
    /\ timers' = timers - 1
    /\ leftSidebar' = leftSidebarTimer(leftSidebar, hash)
    /\ lastRun' = 0
    /\ UNCHANGED <<otpPage, currentRoute, hash, content, sidebar, handlers, rafQueue,
                   running, scrollY, threw>>
    /\ UNCHANGED <<fwVars, detVars>>

(***************************************************************************)
(* detectFramework and stripMarkerLine on one code block                   *)
(***************************************************************************)
MaxPad == 5
MaxTail == 2

LineAlphabet ==
    {Marker(hono), Marker(HonoCaps), Marker(reactSpaced), Marker(nestjs),
     Label(express), Comment, Code}
Tails == UNION {[1..n -> LineAlphabet] : n \in 0..MaxTail}
Pads == {[i \in 1..n |-> l] : n \in 0..MaxPad, l \in {Comment, Blank}}
PrevEls == {NoNode, Para("label", express), Para("text", Empty)}

Pending == [fw |-> Null, lines |-> <<>>, cached |-> FALSE, called |-> FALSE]

\* a call of detectFramework on the block
Detect ==
    /\ result' = [fw |-> detectFramework(block, prevEl), lines |-> block.lines,
                  cached |-> ~Falsy(block.dataset), called |-> TRUE]
    /\ block' = Detected(block, prevEl)
    /\ UNCHANGED <<prevEl, grouped>>
    /\ UNCHANGED <<fwVars, otpVars>>

\* processPage calls stripMarkerLine on a block outside a group whenever
\* detectFramework returned a framework for it (lines 542-545)
Strip ==
    /\ ~grouped
    /\ result.called
    /\ result.fw # Null
    /\ block' = stripMarkerLine(block)
    /\ UNCHANGED <<prevEl, result, grouped>>
    /\ UNCHANGED <<fwVars, otpVars>>

\* createGroupFromBatch moves the pre into a group (lines 510-513): there it
\* follows the switcher, another block or the label paragraph moved with it
MoveToGroup ==
    /\ ~grouped
    /\ block.stripped
    /\ grouped' = TRUE
    /\ prevEl' \in {Element, prevEl}
    /\ UNCHANGED <<block, result>>
    /\ UNCHANGED <<fwVars, otpVars>>

\* processPage forgets what it knew of a grouped block (lines 436-439)
Forget ==
    /\ grouped
    /\ block.stripped
    /\ block' = [block EXCEPT !.dataset = Null, !.stripped = FALSE]
    /\ UNCHANGED <<prevEl, result, grouped>>
    /\ UNCHANGED <<fwVars, otpVars>>

(***************************************************************************)
(* Specifications                                                          *)
(***************************************************************************)
FwNext ==
    \/ HookInit
    \/ \E p \in DOMAIN Pages : FwDoneEach(p)
    \/ FwFrame
    \/ ClickButton
    \/ Reload

OtpNext ==
    \/ \E p \in DOMAIN OtpPages : OtpDoneEach(p)
    \/ \E y \in ScrollPositions : Scroll(y)
    \/ FrameStart
    \/ RunTick
    \/ RunCreate
    \/ Timer

\* the frame of createOnThisPageSidebar and the timers it starts
NavNext ==
    \/ FrameStart
    \/ RunCreate
    \/ Timer

DetNext ==
    \/ Detect
    \/ Strip
    \/ MoveToGroup
    \/ Forget

\* the script of framework-switcher.js has been evaluated (lines 86-97);
\* on-this-page.js is idle
FwInit ==
    /\ pc = "loaded"
    /\ localStorage \in [{storageKey, otherKey} -> StoredValues]
    /\ defaultFramework \in Defaults
    /\ currentFramework = LoadFramework(localStorage, defaultFramework)
    /\ page = 0
    /\ dom = <<>>
    /\ pendingProcess = 0
    /\ selected = Null
    /\ otpPage = 0
    /\ currentRoute = Empty
    /\ hash = Empty
    /\ content = <<>>
    /\ sidebar = <<>>
    /\ leftSidebar = NoLeftSidebar
    /\ handlers = <<>>
    /\ rafQueue = <<>>
    /\ running = <<>>
    /\ timers = 0
    /\ scrollY = 0
    /\ threw = FALSE
    /\ lastRun = 0
    /\ block = NoNode
    /\ prevEl = NoNode
    /\ result = Pending
    /\ grouped = FALSE

\* on-this-page.js has been evaluated (line 480); the switcher is loaded
\* and idle, with nothing stored
OtpInit ==
    /\ pc = "ready"
    /\ localStorage = [k \in {storageKey, otherKey} |-> Null]
    /\ defaultFramework = hono
    /\ currentFramework = hono
    /\ page = 0
    /\ dom = <<>>
    /\ pendingProcess = 0
    /\ selected = Null
    /\ otpPage = 0
    /\ currentRoute = Empty
    /\ hash = Empty
    /\ content = <<>>
    /\ sidebar = <<>>
    /\ leftSidebar = NoLeftSidebar
    /\ handlers = <<>>
    /\ rafQueue = <<>>
    /\ running = <<>>
    /\ timers = 0
    /\ scrollY = 0
    /\ threw = FALSE
    /\ lastRun = 0
    /\ block = NoNode
    /\ prevEl = NoNode
    /\ result = Pending
    /\ grouped = FALSE

\* any small code block, not yet seen by detectFramework
DetInit ==
    /\ pc = "ready"
    /\ localStorage = [k \in {storageKey, otherKey} |-> Null]
    /\ defaultFramework = hono
    /\ currentFramework = hono
    /\ page = 0
    /\ dom = <<>>
    /\ pendingProcess = 0
    /\ selected = Null
    /\ otpPage = 0
    /\ currentRoute = Empty
    /\ hash = Empty
    /\ content = <<>>
    /\ sidebar = <<>>
    /\ leftSidebar = NoLeftSidebar
    /\ handlers = <<>>
    /\ rafQueue = <<>>
    /\ running = <<>>
    /\ timers = 0
    /\ scrollY = 0
    /\ threw = FALSE
    /\ lastRun = 0
    /\ \E pad \in Pads, tail \in Tails, cls \in {{}, {react}} :
          block = PreClass(1, pad \o tail, cls)
    /\ prevEl \in PrevEls
    /\ result = Pending
    /\ grouped = FALSE

\* Docsify has rendered a page under the route /guide (otpPage 0: the page
\* is none of OtpPages), with any short sequence of headings or with any
\* small left sidebar, and hook.doneEach has requested the frame for
\* createOnThisPageSidebar
NavInit ==
    /\ pc = "ready"
    /\ localStorage = [k \in {storageKey, otherKey} |-> Null]
    /\ defaultFramework = hono
    /\ currentFramework = hono
    /\ page = 0
    /\ dom = <<>>
    /\ pendingProcess = 0
    /\ selected = Null
    /\ otpPage = 0
    /\ currentRoute = <<"/", "guide">>
    /\ hash = GuideHref
    /\ \E levels \in LevelSeqs, left \in LeftSidebars :
          /\ levels = <<2, 3>> \/ left = NoLeftSidebar
          /\ content = HeadingsOf(levels)
          /\ leftSidebar = left
    /\ sidebar = <<>>
    /\ handlers = <<>>
    /\ rafQueue = <<0>>
    /\ running = <<>>
    /\ timers = 0
    /\ scrollY = 0
    /\ threw = FALSE
    /\ lastRun = 0
    /\ block = NoNode
    /\ prevEl = NoNode
    /\ result = Pending
    /\ grouped = FALSE

\* framework-switcher.js
SpecFw == FwInit /\ [][FwNext]_vars
\* on-this-page.js
SpecOtp == OtpInit /\ [][OtpNext]_vars
\* a step of createOnThisPageSidebar: the step of OtpNext that takes a
\* callback 0 from the frame in progress
CreateStep == running # <<>> /\ Head(running) = 0 /\ running' = Tail(running)

\* the browser runs every requested animation frame, and every callback of
\* a frame it has started
OtpFairness == WF_vars(FrameStart) /\ WF_vars(RunTick) /\ WF_running(CreateStep)
\* on-this-page.js in a browser that keeps rendering frames
SpecOtpFair == OtpInit /\ [][OtpNext]_vars /\ OtpFairness
\* createOnThisPageSidebar on any short sequence of headings
SpecNav == NavInit /\ [][NavNext]_vars
\* detectFramework and stripMarkerLine on any small code block
SpecDetect == DetInit /\ [][DetNext]_vars

(***************************************************************************)
(* Vocabulary of the claims about framework-switcher.js                    *)
(***************************************************************************)
Groups == {g \in DOMAIN dom : dom[g].k = "group"}
CodeKids(g) == {j \in DOMAIN dom[g].kids : IsCode(dom[g].kids[j])}

\* the framework a block of the rendered page is annotated with: what the
\* page source makes detectFramework find in the freshly rendered block
SrcIndex(p, id) == CHOOSE i \in DOMAIN Pages[p] : IsCode(Pages[p][i]) /\ Pages[p][i].id = id
\* what detectFramework returns for each node of each page as rendered
SrcFrameworks ==
    [p \in DOMAIN Pages |->
        [i \in DOMAIN Pages[p] |->
            IF IsCode(Pages[p][i])
            THEN detectFramework(Pages[p][i], PrevOf(Pages[p], i, FALSE))
            ELSE Null]]
SrcFramework(p, id) == SrcFrameworks[p][SrcIndex(p, id)]

\* the frameworks recorded (data-framework) on the blocks of a group
Tags(g) == {dom[g].kids[j].dataset : j \in CodeKids(g)} \ {Null}

\* the framework a group shows: the current one when a block of the group
\* carries it, otherwise the first one, in configured order, that it carries
ShownFramework(g) ==
    IF currentFramework \in Tags(g) \/ Tags(g) = {} THEN currentFramework
    ELSE InPreferredOrder(Tags(g))[1]

Annotated(p) == {i \in DOMAIN Pages[p] : IsCode(Pages[p][i]) /\ SrcFramework(p, Pages[p][i].id) # Null}

\* a node that may stand between two blocks of one run
Skippable(n) == n.k = "text" \/ (n.k = "p" /\ n.ptext.t \in {"empty", "label"})

\* blocks i <= j of the page source belong to one run of adjacent annotated
\* blocks: both are pre children of the content element and so is every
\* node between them that is not skippable
SameRun(p, i, j) ==
    /\ i <= j
    /\ i \in Annotated(p) /\ j \in Annotated(p)
    /\ Pages[p][i].k = "pre" /\ Pages[p][j].k = "pre"
    /\ \A k \in (i + 1)..(j - 1) :
          Skippable(Pages[p][k]) \/ (k \in Annotated(p) /\ Pages[p][k].k = "pre")

RunOf(p, i) == {j \in Annotated(p) : SameRun(p, i, j) \/ SameRun(p, j, i)}
RunIds(p, i) == {Pages[p][j].id : j \in RunOf(p, i)}
RunTags(p, i) == {SrcFramework(p, Pages[p][j].id) : j \in RunOf(p, i)}

GroupIds(g) == {dom[g].kids[j].id : j \in CodeKids(g)}
TopLevelIds == {dom[i].id : i \in {j \in DOMAIN dom : IsCode(dom[j])}}

\* processPage has run on the rendered page
Processed == page # 0 /\ pendingProcess = 0

\* C2: once processPage has run, every run of at least two adjacent annotated
\* blocks with at least two distinct tags is one group (with its switcher)
\* holding exactly the blocks of the run; no block of the run is outside it
C2_OneGroupPerRun ==
    Processed =>
        \A i \in Annotated(page) :
            (Cardinality(RunOf(page, i)) >= 2 /\ Cardinality(RunTags(page, i)) >= 2)
            => /\ Cardinality({g \in Groups : GroupIds(g) \cap RunIds(page, i) # {}}) = 1
               /\ \E g \in Groups : GroupIds(g) = RunIds(page, i)
                                     /\ Len(dom[g].buttons) >= 2
               /\ RunIds(page, i) \cap TopLevelIds = {}

\* a processed page with a group of three blocks and two buttons
C2_Witness ==
    /\ Processed
    /\ \E g \in Groups : Cardinality(GroupIds(g)) = 3 /\ Len(dom[g].buttons) = 2

\* C3 as stated: after a selection through a switcher button the storage key
\* holds the selected framework, and a fresh load starts with it
C3_StorageHoldsSelection ==
    selected # Null => (localStorage[storageKey] = selected /\ currentFramework = selected)

\* C3 (amended): after a selection of f through a switcher button, also after
\* a fresh load and its init hook, f is the current framework; the storage
\* key holds f, or holds nothing (or the empty string) when f is the
\* configured default
C3_SelectionPersists ==
    selected # Null =>
        /\ currentFramework = selected
        /\ localStorage[storageKey] = selected \/ Falsy(localStorage[storageKey])
        /\ Falsy(localStorage[storageKey]) => defaultFramework = selected

\* after a selection the site was loaded afresh and hook.init has run
C3_Witness ==
    /\ selected # Null
    /\ page = 0
    /\ pc = "ready"
    /\ selected # defaultFramework
    /\ currentFramework = selected

\* the lines detectFramework scans: the first maxLinesToCheck ones, up to
\* the first line that is neither blank nor a comment
LeadingIdx(lines) ==
    {i \in 1..Min(Len(lines), maxLinesToCheck) :
        \A j \in 1..(i - 1) : lines[j].t = "blank" \/ lines[j].cmt}

NamesConfigured(line) ==
    line.t \in {"marker", "label"} /\ normalizeFrameworkName(line.name) \in frameworkSet

SelectionStep ==
    /\ pc = "ready" /\ pc' = "ready"
    /\ currentFramework' # currentFramework
    /\ selected' = currentFramework'
    /\ localStorage' = [localStorage EXCEPT ![storageKey] = currentFramework']

\* a step of hook.init that replaces an invalid stored framework
ValidationStep ==
    /\ pc = "loaded" /\ pc' = "ready"
    /\ currentFramework \notin frameworkSet
    /\ localStorage' = [localStorage EXCEPT ![storageKey] = defaultFramework]

\* C8: local storage changes only under the storage key, and only in a
\* selection that changes the current framework or in the init validation
C8_StorageWrittenOnlyByPreference ==
    [][localStorage' # localStorage => (SelectionStep \/ ValidationStep)]_vars

\* a selection has written the storage key, and the page was rendered and
\* processed again afterwards
C8_Witness ==
    /\ selected # Null
    /\ localStorage[storageKey] = selected
    /\ localStorage[storageKey] # defaultFramework
    /\ Processed
    /\ Groups # {}

\* the heading a link of the on-this-page sidebar was generated from
SrcHeading(link) == OtpPages[otpPage].headings[link.h]

\* C4: a link whose heading is one level below the heading of the link
\* before it is in a list nested exactly one level deeper
C4_DeeperLevelNestsDeeper ==
    \A k \in DOMAIN sidebar :
        \A l \in 1..(Len(sidebar[k].links) - 1) :
            SrcHeading(sidebar[k].links[l + 1]).level = SrcHeading(sidebar[k].links[l]).level + 1
            => ListDepth(sidebar[k], sidebar[k].links[l + 1].list)
                 = ListDepth(sidebar[k], sidebar[k].links[l].list) + 1

\* the link that should be active: the one of the last heading whose top edge
\* is at most Threshold below the top of the viewport, else the first link
ExpectedActive(links) ==
    LET above == {l \in DOMAIN links : SrcHeading(links[l]).top - scrollY <= Threshold}
    IN IF above = {} THEN 1 ELSE CHOOSE l \in above : \A m \in above : m <= l

\* C5: right after a run of updateActiveLink there is a sidebar and exactly
\* one of its links is active, the expected one
C5_ExactlyOneActiveLink ==
    lastRun # 0 =>
        /\ sidebar # <<>>
        /\ \A k \in DOMAIN sidebar :
              \A l \in DOMAIN sidebar[k].links :
                  sidebar[k].links[l].active <=> l = ExpectedActive(sidebar[k].links)

\* the path in the location hash: what stands between #/ and the first ?
HashPath(h) ==
    IF Len(h) < 2 \/ SubSeq(h, 1, 2) # <<"#", "/">> THEN Empty
    ELSE CHOOSE q \in {SubSeq(h, 3, n) : n \in 2..Len(h)} :
            /\ "?" \notin Range(q)
            /\ Len(q) + 2 = Len(h) \/ h[Len(q) + 3] = "?"

\* the route of the most recent render without its leading slash, else the
\* path of the hash, else README
ExpectedPath ==
    LET route == OtpPages[otpPage].route
        path == IF route # Empty /\ route[1] = "/" THEN SubSeq(route, 2, Len(route)) ELSE route
    IN IF path # Empty THEN path
       ELSE IF HashPath(OtpPages[otpPage].hash) # Empty THEN HashPath(OtpPages[otpPage].hash)
       ELSE <<"README">>

C9_AtMostOneScrollHandler == Len(handlers) <= 1

\* a step of the timer callback of updateLeftSidebarActiveState
TimerStep == timers' < timers
LeftMissing == ~leftSidebar.aside \/ ~leftSidebar.nav

\* C10: no step raises an error; on a page without headings
\* createOnThisPageSidebar leaves no sidebar, the left sidebar as it was and
\* no new scroll handler; when the left sidebar or its navigation element
\* is missing, createOnThisPageSidebar and the timer callback leave the left
\* sidebar as it was
C10_FailSilently ==
    [][/\ ~threw'
       /\ (CreateStep /\ content = <<>>)
            => (sidebar' = <<>> /\ leftSidebar' = leftSidebar /\ handlers' = handlers)
       /\ ((CreateStep \/ TimerStep) /\ LeftMissing) => leftSidebar' = leftSidebar]_vars

\* createOnThisPageSidebar has run on a page with headings and no left
\* sidebar navigation, and then on the page without headings
C10_Witness ==
    /\ otpPage # 0
    /\ OtpPages[otpPage].headings = <<>>
    /\ rafQueue = <<>> /\ running = <<>>
    /\ sidebar = <<>>
    /\ leftSidebar = OtpPages[otpPage].left
    /\ Len(handlers) = 1
    /\ Len(handlers[1].hd) = 2
    /\ timers = 0
    /\ ~threw

\* the frameworks of the blocks of group g, as the page source annotates them
SrcTags(g) == {SrcFramework(page, id) : id \in GroupIds(g)} \ {Null}

\* the framework group g should show: the current one when the group
\* contains it, else the first one in configured order that it contains
SrcShown(g) ==
    IF currentFramework \in SrcTags(g) \/ SrcTags(g) = {} THEN currentFramework
    ELSE InPreferredOrder(SrcTags(g))[1]

\* C11: in every group the visible annotated blocks are exactly the blocks of
\* the current framework when the group contains it, else exactly those of
\* the first framework in configured order that the group contains
C11_VisibleBlocksOfShownFramework ==
    \A g \in Groups : \A j \in CodeKids(g) :
        SrcFramework(page, dom[g].kids[j].id) # Null
        => (dom[g].kids[j].hidden <=> SrcFramework(page, dom[g].kids[j].id) # SrcShown(g))

\* group g shows exactly its blocks of framework f and its f button is pressed
ShowsFramework(g, f) ==
    /\ \A j \in CodeKids(g) :
          SrcFramework(page, dom[g].kids[j].id) # Null
          => (dom[g].kids[j].hidden <=> SrcFramework(page, dom[g].kids[j].id) # f)
    /\ \E b \in DOMAIN dom[g].buttons :
          dom[g].buttons[b].fw = f /\ dom[g].buttons[b].pressed /\ dom[g].buttons[b].shown

\* every group that contains the current framework shows it
AllGroupsFollow == \A g \in Groups : currentFramework \in SrcTags(g) => ShowsFramework(g, currentFramework)

\* C12: a step of setFramework(f) with f different from the current
\* framework leaves every group that contains f showing exactly its f
\* blocks with its f button pressed
C12_SelectionAppliesToEveryGroup ==
    [][(pc = "ready" /\ pc' = "ready" /\ currentFramework' # currentFramework)
        => AllGroupsFollow']_vars

PressedButtons(g) == {b \in DOMAIN dom[g].buttons : dom[g].buttons[b].pressed}
VisibleAnnotated(g) ==
    {j \in CodeKids(g) : SrcFramework(page, dom[g].kids[j].id) # Null /\ ~dom[g].kids[j].hidden}

\* C13: in every group exactly one button has aria-pressed true, and the
\* visible annotated blocks of the group are blocks of that button's framework
C13_OnePressedButtonMatchesVisible ==
    \A g \in Groups :
        /\ Cardinality(PressedButtons(g)) = 1
        /\ VisibleAnnotated(g) # {}
        /\ \A b \in PressedButtons(g) : \A j \in VisibleAnnotated(g) :
              SrcFramework(page, dom[g].kids[j].id) = dom[g].buttons[b].fw

\* the fw-hidden class of every block of every group
Visibility(nodes) ==
    [i \in DOMAIN nodes |-> [j \in DOMAIN nodes[i].kids |-> nodes[i].kids[j].hidden]]

NothingChanges ==
    /\ currentFramework' = currentFramework
    /\ localStorage' = localStorage
    /\ Visibility(dom') = Visibility(dom)

\* C14 as stated: a click on a button that is shown as pressed changes neither
\* the current framework nor local storage nor the visibility of any block
C14_PressedButtonClickChangesNothing ==
    [][\A g \in DOMAIN dom : \A b \in 1..Len(frameworks) :
          (Click(g, b) /\ dom[g].buttons[b].pressed) => NothingChanges]_vars

\* C14 (amended): a click on a button whose framework is the current
\* framework changes neither the current framework nor local storage nor
\* the visibility of any block
C14_CurrentButtonClickChangesNothing ==
    [][\A g \in DOMAIN dom : \A b \in 1..Len(frameworks) :
          (Click(g, b) /\ dom[g].buttons[b].fw = currentFramework) => NothingChanges]_vars

\* the button of the current framework was clicked while nothing was stored
C14_Witness ==
    /\ selected # Null
    /\ selected = currentFramework
    /\ localStorage[storageKey] = Null
    /\ \E g \in Groups : \E b \in PressedButtons(g) : dom[g].buttons[b].fw = selected

\* the groups of a node list with the ids of their members, and the blocks
\* outside groups
Members(nodes) ==
    [i \in DOMAIN nodes |->
        [k |-> nodes[i].k, id |-> nodes[i].id,
         kids |-> [j \in DOMAIN nodes[i].kids |-> nodes[i].kids[j].id]]]

\* in nodes, group i shows exactly its blocks of framework f
ShowsOnly(nodes, i, f) ==
    \A j \in DOMAIN nodes[i].kids :
        (IsCode(nodes[i].kids[j]) /\ SrcFramework(page, nodes[i].kids[j].id) # Null)
        => (nodes[i].kids[j].hidden <=> SrcFramework(page, nodes[i].kids[j].id) # f)

ContainsFramework(nodes, i, f) ==
    \E j \in DOMAIN nodes[i].kids :
        IsCode(nodes[i].kids[j]) /\ SrcFramework(page, nodes[i].kids[j].id) = f

ButtonsShown(nodes, i) == \A b \in DOMAIN nodes[i].buttons : nodes[i].buttons[b].shown

\* a second processPage leaves groups, members and visible blocks as they were
SecondRunKeepsPage ==
    LET again == processPage(dom, currentFramework)
    IN Members(again) = Members(dom) /\ Visibility(again) = Visibility(dom)

\* after a second processPage a selection still switches the visible blocks
\* and keeps the buttons
SelectionWorksAfterSecondRun ==
    LET again == processPage(dom, currentFramework) IN
    \A f \in frameworkSet \ {currentFramework} :
        LET after == updateAll(again, f) IN
        \A i \in DOMAIN after :
            after[i].k = "group"
            => /\ ButtonsShown(after, i)
               /\ ContainsFramework(after, i, f) => ShowsOnly(after, i, f)

\* C15: processPage is idempotent on a processed page
C15_ProcessPageIdempotent ==
    Processed => (SecondRunKeepsPage /\ SelectionWorksAfterSecondRun)

\* a step of hook.init
InitStep == pc = "loaded" /\ pc' = "ready"
\* localStorage.getItem(CONFIG.storageKey)
Stored == localStorage[storageKey]

ReplacedByDefault ==
    currentFramework' = defaultFramework /\ localStorage'[storageKey] = defaultFramework
KeptUnchanged == currentFramework' = Stored /\ localStorage' = localStorage

\* C16 as stated: hook.init replaces a stored value that is not configured by
\* the default, in memory and in local storage, and keeps a configured one
C16_InitValidatesStored ==
    [][InitStep =>
          /\ (Stored # Null /\ Stored \notin frameworkSet) => ReplacedByDefault
          /\ Stored \in frameworkSet => KeptUnchanged]_vars

\* C16 (amended): hook.init replaces a non-empty stored value that is not
\* configured by the default, in memory and in local storage, and keeps a
\* configured one; a stored empty string counts as absent: the default is
\* the current framework, and local storage is left alone when the default
\* is configured
C16_InitValidatesNonEmptyStored ==
    [][InitStep =>
          /\ (~Falsy(Stored) /\ Stored \notin frameworkSet) => ReplacedByDefault
          /\ Stored \in frameworkSet => KeptUnchanged
          /\ Stored = Empty =>
                /\ currentFramework' = defaultFramework
                /\ defaultFramework \in frameworkSet => localStorage' = localStorage]_vars

\* hook.init has run and memory and storage hold the configured default,
\* before any page was rendered
C16_Witness ==
    /\ pc = "ready"
    /\ page = 0
    /\ selected = Null
    /\ defaultFramework \in frameworkSet
    /\ currentFramework = defaultFramework
    /\ Stored = defaultFramework

\* C17 as stated: after hook.init, a value held under the storage key equals
\* the current framework
C17_StoredEqualsCurrent ==
    (pc = "ready" /\ Stored # Null) => Stored = currentFramework

\* C17 (amended): after hook.init, a value held under the storage key equals
\* the current framework, unless it is the empty string, which counts as
\* absent: then the current framework is that string or the configured default
C17_NonEmptyStoredEqualsCurrent ==
    (pc = "ready" /\ Stored # Null) =>
        \/ Stored = currentFramework
        \/ Stored = Empty /\ currentFramework = defaultFramework

\* a selection was stored, the site was loaded afresh and hook.init has run
C17_Witness ==
    /\ pc = "ready"
    /\ page = 0
    /\ selected # Null
    /\ Stored = selected
    /\ Stored = currentFramework

\* the index in the page source of the block with that id
SrcOf(id) == SrcIndex(page, id)

\* C18: two annotated blocks are in the same group only if both are pre
\* children of the content element and every node between them in the page
\* source is a text node, an empty paragraph, a label paragraph or an
\* annotated pre of the same group
C18_SameGroupOnlyIfAdjacent ==
    \A g \in Groups : \A a \in GroupIds(g) : \A b \in GroupIds(g) :
        SrcOf(a) < SrcOf(b) =>
            /\ SameRun(page, SrcOf(a), SrcOf(b))
            /\ \A k \in (SrcOf(a) + 1)..(SrcOf(b) - 1) :
                  IsCode(Pages[page][k]) => Pages[page][k].id \in GroupIds(g)

\* a group whose blocks were separated by a label paragraph, next to blocks
\* that another element keeps out of it
C18_Witness ==
    /\ Processed
    /\ \E g \in Groups : \E j \in DOMAIN dom[g].kids : dom[g].kids[j].k = "p"
    /\ \E i \in DOMAIN dom : dom[i].k = "box" /\ dom[i].dataset # Null

\* C19: every group holds blocks of at least two distinct frameworks
C19_GroupNeedsTwoFrameworks ==
    \A g \in Groups : Cardinality(SrcTags(g)) >= 2

\* the code blocks of the rendered page, by index in the page source
SrcBlocks == IF page = 0 THEN {} ELSE {i \in DOMAIN Pages[page] : IsCode(Pages[page][i])}

\* the block with that id as a child of the content element, or NoNode
TopLevel(id) ==
    IF \E i \in DOMAIN dom : IsCode(dom[i]) /\ dom[i].id = id
    THEN dom[CHOOSE i \in DOMAIN dom : IsCode(dom[i]) /\ dom[i].id = id]
    ELSE NoNode

\* an annotated block without an adjacent annotated neighbour
Lone(i) == i \in Annotated(page) /\ RunOf(page, i) \subseteq {i}

\* C20: a block without detected framework stays where it is, visible, with
\* its text; an annotated block without adjacent annotated neighbour stays
\* outside every group and visible
C20_OtherBlocksUntouched ==
    \A i \in SrcBlocks :
        LET src == Pages[page][i] IN
        /\ i \notin Annotated(page) =>
              /\ IsCode(TopLevel(src.id))
              /\ ~TopLevel(src.id).hidden
              /\ TopLevel(src.id).lines = src.lines
        /\ Lone(i) =>
              /\ IsCode(TopLevel(src.id))
              /\ ~TopLevel(src.id).hidden

\* after a selection on a processed page: a block with a marker of an
\* unconfigured framework keeps its marker line, and a lone annotated block
\* is outside every group
C20_Witness ==
    /\ Processed
    /\ selected # Null
    /\ \E i \in SrcBlocks :
          /\ i \notin Annotated(page)
          /\ Pages[page][i].lines[1].t = "marker"
          /\ TopLevel(Pages[page][i].id).lines = Pages[page][i].lines
    /\ \E i \in SrcBlocks : Lone(i) /\ TopLevel(Pages[page][i].id).stripped

\* the frameworks of the buttons the switcher of group g displays, in order
DisplayedButtons(g) ==
    LET idx == SelectIdx(dom[g].buttons, LAMBDA b : b.shown, 1)
    IN [j \in 1..Len(idx) |-> dom[g].buttons[idx[j]].fw]

\* the frameworks of the button elements of the switcher of group g, in order
ButtonElements(g) == [b \in DOMAIN dom[g].buttons |-> dom[g].buttons[b].fw]

\* C21: the switcher of a group displays exactly one button for each
\* framework present among the blocks of the group and none for an absent
\* framework, in the order of the configured framework list
C21_ButtonsInConfiguredOrder ==
    \A g \in Groups : DisplayedButtons(g) = InPreferredOrder(SrcTags(g))

\* the button elements of every switcher are those of the frameworks of the
\* blocks of its group, in configured order, displayed or not
C21_ButtonElementsInConfiguredOrder ==
    \A g \in Groups : ButtonElements(g) = InPreferredOrder(SrcTags(g))

\* the block carries the framework as a class name
ByClass(fw) == fw \in block.cls
\* the paragraph right before the block is a label naming the framework
ByParagraph(fw) ==
    /\ prevEl.k = "p" /\ prevEl.ptext.t = "label"
    /\ fw = normalizeFrameworkName(prevEl.ptext.name)

\* C22: a framework that a scan of detectFramework finds either comes from a
\* marker or label line that is one of the first maxLinesToCheck lines (blank
\* lines counted) with only blank and comment lines before it, or from the
\* preceding paragraph or a class name; a marker after the first non-blank
\* non-comment line or after the line limit yields nothing
C22_MarkerOnlyInLeadingLines ==
    [][(Detect /\ Falsy(block.dataset) /\ result'.fw # Null) =>
          \/ \E i \in LeadingIdx(block.lines) :
                /\ NamesConfigured(block.lines[i])
                /\ result'.fw = normalizeFrameworkName(block.lines[i].name)
          \/ ByParagraph(result'.fw)
          \/ ByClass(result'.fw)]_vars

\* a scan found nothing in a block whose only configured marker stands below
\* the line limit, after maxLinesToCheck comment or blank lines
C22_Witness ==
    /\ result.called
    /\ ~result.cached
    /\ result.fw = Null
    /\ \E i \in DOMAIN result.lines :
          i = maxLinesToCheck + 1 /\ NamesConfigured(result.lines[i])

\* a scan found nothing in a block whose configured marker follows a code line
MarkerAfterCodeIgnored ==
    /\ result.called
    /\ ~result.cached
    /\ result.fw = Null
    /\ \E i \in 2..Min(Len(result.lines), maxLinesToCheck) :
          NamesConfigured(result.lines[i]) /\ result.lines[i - 1] = Code

\* the leading lines of the block that name a configured framework
NamedIdx(lines) == {i \in LeadingIdx(lines) : NamesConfigured(lines[i])}
\* the paragraph right before the block is a label naming a configured framework
ParagraphNames ==
    /\ prevEl.k = "p" /\ prevEl.ptext.t = "label"
    /\ normalizeFrameworkName(prevEl.ptext.name) \in frameworkSet

\* C23: a call of detectFramework on a block with a cached framework returns
\* it and scans nothing; otherwise a framework named in the leading lines
\* wins over the preceding label paragraph, and either wins over a framework
\* class name; without any of them the result is null
C23_DetectionPriority ==
    [][Detect =>
          IF ~Falsy(block.dataset)
          THEN result'.fw = block.dataset /\ block' = block
          ELSE /\ NamedIdx(block.lines) # {} =>
                    \E i \in NamedIdx(block.lines) :
                        /\ \A j \in NamedIdx(block.lines) : i <= j
                        /\ result'.fw = normalizeFrameworkName(block.lines[i].name)
               /\ (NamedIdx(block.lines) = {} /\ ParagraphNames) =>
                    result'.fw = normalizeFrameworkName(prevEl.ptext.name)
               /\ (NamedIdx(block.lines) = {} /\ ~ParagraphNames) =>
                    /\ result'.fw \in (block.cls \cap frameworkSet) \cup {Null}
                    /\ block.cls \cap frameworkSet # {} => result'.fw # Null]_vars

\* the three sources disagree: the marker line says hono, the paragraph
\* express and the class react, and the scan returned hono
C23_Witness ==
    /\ result.called
    /\ ~result.cached
    /\ result.fw = hono
    /\ \E i \in NamedIdx(result.lines) : normalizeFrameworkName(result.lines[i].name) = hono
    /\ ParagraphNames /\ normalizeFrameworkName(prevEl.ptext.name) = express
    /\ react \in block.cls

\* the paragraph says express and the class react, no leading line names a
\* framework, and the scan returned express
ParagraphBeatsClass ==
    /\ result.called
    /\ ~result.cached
    /\ result.fw = express
    /\ NamedIdx(result.lines) = {}
    /\ react \in block.cls

\* a cached framework was returned for a block whose text, after its marker
\* line was stripped, names another framework first
CachedBeatsText ==
    /\ result.called
    /\ result.cached
    /\ \E i \in NamedIdx(result.lines) :
          /\ \A j \in NamedIdx(result.lines) : i <= j
          /\ result.fw # normalizeFrameworkName(result.lines[i].name)

\* lines without the line at index i, the others unchanged and in order
Without(lines, i) ==
    [j \in 1..(Len(lines) - 1) |-> IF j < i THEN lines[j] ELSE lines[j + 1]]

\* the first call of stripMarkerLine on a block removes exactly the line its
\* framework was detected from
RemovesDetectedLine ==
    (Strip /\ ~block.stripped /\ NamedIdx(block.lines) # {}) =>
        \E i \in NamedIdx(block.lines) :
            /\ \A j \in NamedIdx(block.lines) : i <= j
            /\ block'.lines = Without(block.lines, i)

\* a further call of stripMarkerLine removes nothing
RemovesNothingMore == (Strip /\ block.stripped) => block'.lines = block.lines

\* further calls of stripMarkerLine on a block remove nothing more
FurtherCallsRemoveNothing == [][RemovesNothingMore]_vars

\* C24: for a block whose framework was detected from a marker or label
\* line of its text, stripMarkerLine removes exactly that line and leaves
\* every other line unchanged and in order, and further calls remove nothing
C24_StripsExactlyDetectedLine ==
    [][RemovesDetectedLine /\ RemovesNothingMore]_vars

\* C25: any two links of a sidebar whose headings have the same level are in
\* lists of the same nesting depth, whatever headings lie between them
C25_SameLevelSameDepth ==
    \A k \in DOMAIN sidebar :
        \A l \in DOMAIN sidebar[k].links : \A m \in DOMAIN sidebar[k].links :
            SrcHeading(sidebar[k].links[l]).level = SrcHeading(sidebar[k].links[m]).level
            => ListDepth(sidebar[k], sidebar[k].links[l].list)
                 = ListDepth(sidebar[k], sidebar[k].links[m].list)

RECURSIVE DocOrder(_, _)
\* the links below element e of sidebar sb (<<"ul", j>> or <<"li", l>>) in
\* document order: an li holds its link and then the lists appended to it
DocOrder(sb, e) ==
    IF e[1] = "ul"
    THEN Flatten([i \in DOMAIN sb.lists[e[2]].kids |-> DocOrder(sb, sb.lists[e[2]].kids[i])])
    ELSE LET nested == SelectIdx(sb.lists, LAMBDA ul : ul.parent = e, 1)
         IN <<e[2]>> \o Flatten([i \in DOMAIN nested |-> DocOrder(sb, <<"ul", nested[i]>>)])

\* the headings of the links of sidebar sb, read in document order of sb
LinkedHeadings(sb) ==
    LET order == DocOrder(sb, <<"ul", 1>>)
    IN [j \in DOMAIN order |-> sb.links[order[j]].h]

\* C26: the links of a sidebar, read in document order, are those of the
\* headings h2 to h6 of the content, one each and in the order of the
\* headings; no link belongs to an h1
C26_OneLinkPerHeadingInOrder ==
    \A k \in DOMAIN sidebar :
        /\ LinkedHeadings(sidebar[k]) = SelectIdx(content, LAMBDA h : h.level # 1, 1)
        /\ \A l \in DOMAIN sidebar[k].links :
              /\ sidebar[k].links[l].id = content[sidebar[k].links[l].h].id
              /\ content[sidebar[k].links[l].h].level \in 2..6

\* a sidebar for a page that goes down to an h6, back up to an h2 and holds
\* an h1 between other headings
C26_Witness ==
    /\ sidebar # <<>>
    /\ Len(content) = 4
    /\ content[1].level = 3 /\ content[2].level = 6
    /\ content[3].level = 1 /\ content[4].level = 2
    /\ Len(sidebar[1].links) = 3
    /\ Len(sidebar[1].lists) > 3

\* the animation-frame callbacks of handler h requested and not yet run
PendingTicks(h) ==
    Len(SelectIdx(rafQueue \o running, LAMBDA c : c = h, 1))

\* at most one callback of each handler is pending, and ticking says whether
\* one is
OneTickPending ==
    \A h \in DOMAIN handlers :
        /\ PendingTicks(h) <= 1
        /\ handlers[h].ticking <=> PendingTicks(h) = 1

\* a scroll event seen by handler h is followed by a run of its updateActiveLink
ScrollLeadsToUpdate(h) ==
    (h \in DOMAIN handlers /\ handlers[h].ticking)
        ~> (lastRun = h /\ ~handlers[h].ticking)

\* C27: for each registered scroll handler at most one animation-frame
\* callback is pending at a time, however many scroll events arrive before
\* the frame, and every scroll event is eventually followed by a run of
\* updateActiveLink
C27_ScrollThrottled ==
    /\ []OneTickPending
    /\ \A h \in 1..MaxHandlers : ScrollLeadsToUpdate(h)

\* two handlers are registered, a scroll event has requested a callback for
\* each, and the frame has run the first of them
C27_Witness ==
    /\ Len(handlers) = 2
    /\ lastRun = 1
    /\ running = <<2>>
    /\ ~handlers[1].ticking
    /\ handlers[2].ticking
    /\ scrollY # 0

ActiveLinks(sb) == {l \in DOMAIN sb.links : sb.links[l].active}

\* C28: at every moment at most one link of the on-this-page sidebar carries
\* the class active
C28_AtMostOneActiveLink ==
    \A k \in DOMAIN sidebar : Cardinality(ActiveLinks(sidebar[k])) <= 1

\* the same between frames, when no callback of a frame in progress is left
AtMostOneActiveLinkBetweenFrames == running = <<>> => C28_AtMostOneActiveLink

\* C29: at most one on-this-page sidebar exists in the document
C29_AtMostOneSidebar == Len(sidebar) <= 1

\* two sidebars were created since the last render, by two callbacks pending
\* at the same time (both handlers hold headings that are in the document),
\* and one sidebar exists
C29_Witness ==
    /\ running = <<>>
    /\ lastRun = 2
    /\ Len(handlers) = 2
    /\ handlers[1].attached /\ handlers[2].attached
    /\ Len(sidebar) = 1
    /\ sidebar[1].watchers = {2}

\* the li elements of a left sidebar, in document order
LeftLis(ls) == AllLis(ls.items)
\* those that hold a page link: a link whose href does not contain ?id=
PageLinkLis(ls) ==
    LET idx == SelectIdx(LeftLis(ls), LAMBDA li : li.link /\ ~HasIdQuery(li.href), 1)
    IN [j \in DOMAIN idx |-> LeftLis(ls)[idx[j]]]

\* a step in which removeNestedFromLeftSidebar runs past its early returns
RemoveNestedStep ==
    CreateStep /\ content # <<>> /\ leftSidebar.aside /\ leftSidebar.nav

RECURSIVE OutsideHeadingItems(_)
\* the li elements below a ul that are not inside the li of a ?id= link
OutsideHeadingItems(ul) ==
    IF ul = <<>> THEN <<>>
    ELSE IF Head(ul).link /\ HasIdQuery(Head(ul).href) THEN OutsideHeadingItems(Tail(ul))
    ELSE <<Head(ul)>> \o OutsideHeadingItems(Head(ul).ul) \o OutsideHeadingItems(Tail(ul))

\* the page links of a left sidebar that are not inside the li of a ?id= link
OuterPageLinkLis(ls) ==
    LET lis == OutsideHeadingItems(ls.items)
        idx == SelectIdx(lis, LAMBDA li : li.link, 1)
    IN [j \in DOMAIN idx |-> lis[idx[j]]]

\* what removeNestedFromLeftSidebar does keep: the page links outside the
\* items of ?id= links, in order and with their active mark
OuterPageLinksKept ==
    [][RemoveNestedStep =>
          /\ \A li \in Range(LeftLis(leftSidebar')) : li.link => ~HasIdQuery(li.href)
          /\ Len(PageLinkLis(leftSidebar')) = Len(OuterPageLinkLis(leftSidebar))
          /\ \A j \in DOMAIN OuterPageLinkLis(leftSidebar) :
                /\ PageLinkLis(leftSidebar')[j].href = OuterPageLinkLis(leftSidebar)[j].href
                /\ PageLinkLis(leftSidebar')[j].text = OuterPageLinkLis(leftSidebar)[j].text
                /\ OuterPageLinkLis(leftSidebar)[j].active
                     => PageLinkLis(leftSidebar')[j].active]_vars

\* C30: after removeNestedFromLeftSidebar the left sidebar holds no link
\* whose href contains ?id=, holds every page link it held before, in the
\* same order, and every page link whose item was active has an active item
C30_OnlyHeadingLinksRemoved ==
    [][RemoveNestedStep =>
          /\ \A li \in Range(LeftLis(leftSidebar')) : li.link => ~HasIdQuery(li.href)
          /\ Len(PageLinkLis(leftSidebar')) = Len(PageLinkLis(leftSidebar))
          /\ \A j \in DOMAIN PageLinkLis(leftSidebar) :
                /\ PageLinkLis(leftSidebar')[j].href = PageLinkLis(leftSidebar)[j].href
                /\ PageLinkLis(leftSidebar')[j].text = PageLinkLis(leftSidebar)[j].text
                /\ PageLinkLis(leftSidebar)[j].active => PageLinkLis(leftSidebar')[j].active]_vars

====
